---- MODULE Spec2Model ----
(***************************************************************************)
(* The asynchronous batch pipeline of the AI photo assistant               *)
(* (src/backend/main.py, photo_quality_checker.py, semantic_search.py):    *)
(* the job registry processing_tasks, the background executions with their *)
(* screening worker pool and indexing chunks, the decode cache, the vector *)
(* store collection and the clear operation.                               *)
(***************************************************************************)
EXTENDS Integers, Sequences, FiniteSets, TLC

\* ------------------------------------------------------------------ bounds
\* Submit requests in one behaviour.
MaxSubmits == 2
\* Last value the millisecond clock int(time.time() * 1000) is read at.
MaxClock == 1
\* Largest top_k of a search.
MaxTopK == 2
\* Longest list of paths handed to index_photos from outside the pipeline.
MaxPaths == 2
\* Largest BATCH_SIZE and largest MAX_WORKERS of the configurations the
\* batch loop is checked under.
MaxBatch == 3
MaxWorkers == 4

\* ----------------------------------------------------------------- state
VARIABLES
    config,             \* the Config instance: the values read from the
                        \* environment when the process starts
    clock,              \* int(time.time() * 1000) at its last call
    processing_tasks,   \* the job registry: task_id -> job record
    execs,              \* the background_processing runs, in submit order
    image_cache,        \* quality_checker.image_cache: path -> gray image
    collection,         \* semantic_search.collection
    QUALIFIED_PHOTOS,   \* the module-level list of main.py
    clip_available,     \* semantic_search.clip_available
    replies,            \* the submit requests so far and what each returned
    index_call,         \* the last call of index_photos made from outside
                        \* the pipeline, and what it returned
    search_call         \* the last call of search_photos, and what it
                        \* returned

vars == <<config, clock, processing_tasks, execs, image_cache, collection,
          QUALIFIED_PHOTOS, clip_available, replies, index_call, search_call>>

\* ---------------------------------------------------- configuration values
\* BLUR_THRESHOLD 30.0; the exposure thresholds 0.95 and 0.05 in percent.
BLUR_THRESHOLD == 30
OVEREXPOSURE_THRESHOLD == 95
UNDEREXPOSURE_THRESHOLD == 5

Min(a, b) == IF a < b THEN a ELSE b
Max(a, b) == IF a > b THEN a ELSE b

\* ------------------------------------------------------------- file system
\* A path is folder + file name; a file name is stem + extension.
Photo(d, s, x) == [dir |-> d, stem |-> s, ext |-> x]

\* Folders a request may name; "M" does not exist, "E" holds no image.
ExistingFolders == {"A", "B", "D", "E"}
Folders == ExistingFolders \cup {"M"}

\* The files on disk. Folder A: three sharp, well exposed photos. Folder B:
\* an unreadable file, a blurred and dark photo, a photo on which the
\* Laplacian raises, a sharp photo, an overexposed photo, and two files
\* get_image_files does not match. Subfolder A/old, which the glob of A does
\* not reach: a photo with the file name of one in A.
FileSystem ==
    { Photo("A", 1, ".jpg"), Photo("A", 2, ".jpg"), Photo("A", 3, ".jpg"),
      Photo("B", 1, ".jpg"), Photo("B", 2, ".png"), Photo("B", 3, ".JPG"),
      Photo("B", 4, ".bmp"), Photo("B", 5, ".jpeg"), Photo("B", 6, ".Jpg"),
      Photo("B", 7, ".txt"), Photo("E", 1, ".txt"),
      Photo("D", 1, ".jpg"),
      Photo("A/old", 1, ".jpg") }

\* A submit that does not look at the folder.
os_path_unchecked(folder_path) == TRUE

os_path_exists(folder_path) == folder_path \in ExistingFolders

file_exists(photo_path) == photo_path \in FileSystem

basename(photo_path) == <<photo_path.stem, photo_path.ext>>

\* Rank of an extension in the lexical (code point) order of strings.
ExtOrd(x) ==
    CASE x = ".BMP" -> 1 [] x = ".JPEG" -> 2 [] x = ".JPG" -> 3
      [] x = ".Jpg" -> 4 [] x = ".PNG" -> 5 [] x = ".bmp" -> 6
      [] x = ".jpeg" -> 7 [] x = ".jpg" -> 8 [] x = ".png" -> 9
      [] OTHER -> 10

\* p sorts before q in list.sort() (same folder, stems of one digit).
PathLess(p, q) ==
    \/ p.stem < q.stem
    \/ p.stem = q.stem /\ ExtOrd(p.ext) < ExtOrd(q.ext)

RECURSIVE sorted(_)
sorted(S) ==
    IF S = {} THEN <<>>
    ELSE LET m == CHOOSE p \in S : \A q \in S \ {p} : PathLess(p, q)
         IN <<m>> \o sorted(S \ {m})

image_extensions ==
    {".jpg", ".jpeg", ".png", ".bmp", ".JPG", ".JPEG", ".PNG", ".BMP"}

\* glob.glob(folder/*ext): the files whose name ends in ext, letter case
\* included.
glob(folder_path, ext) ==
    sorted({ f \in FileSystem : f.dir = folder_path /\ f.ext = ext })

RECURSIVE extend_all(_, _)
extend_all(folder_path, exts) ==
    IF exts = <<>> THEN <<>>
    ELSE glob(folder_path, Head(exts)) \o extend_all(folder_path, Tail(exts))

\* get_image_files without set() and sort(): the globs in the order of the
\* extension list.
get_image_files_unsorted(folder_path) ==
    extend_all(folder_path, <<".jpg", ".jpeg", ".png", ".bmp",
                              ".JPG", ".JPEG", ".PNG", ".BMP">>)

\* glob per extension (case sensitive, as glob is on POSIX), set() and
\* sort().
get_image_files(folder_path) ==
    sorted({ f \in FileSystem :
               f.dir = folder_path /\ f.ext \in image_extensions })

\* ------------------------------------------------------- quality screening
\* What cv2.imread(path, IMREAD_GRAYSCALE) gives: ok = FALSE is None;
\* lap_var is the variance of the Laplacian, over/under the percentage of
\* histogram mass in the top and bottom buckets; on a "bad" buffer
\* cv2.Laplacian raises.
NoneImage == [ok |-> FALSE, lap_var |-> 0, over |-> 0, under |-> 0, bad |-> FALSE]

imread(path) ==
    CASE path = Photo("B", 1, ".jpg") -> NoneImage
      [] path = Photo("D", 1, ".jpg") ->
           [ok |-> TRUE, lap_var |-> 10, over |-> 0, under |-> 0, bad |-> FALSE]
      [] path = Photo("B", 2, ".png") ->
           [ok |-> TRUE, lap_var |-> 10, over |-> 0, under |-> 40, bad |-> FALSE]
      [] path = Photo("B", 3, ".JPG") ->
           [ok |-> TRUE, lap_var |-> 0, over |-> 0, under |-> 0, bad |-> TRUE]
      [] path = Photo("B", 5, ".jpeg") ->
           [ok |-> TRUE, lap_var |-> 80, over |-> 97, under |-> 0, bad |-> FALSE]
      [] OTHER ->
           [ok |-> TRUE, lap_var |-> 100, over |-> 0, under |-> 0, bad |-> FALSE]

\* _get_gray_image giving None for a path found in the cache.
get_gray_image_hit_none(cache, image_path) ==
    IF image_path \in DOMAIN cache
    THEN [img |-> NoneImage, put |-> FALSE]
    ELSE LET img_gray == imread(image_path)
         IN IF ~img_gray.ok
            THEN [img |-> NoneImage, put |-> FALSE]
            ELSE [img |-> img_gray,
                  put |-> Cardinality(DOMAIN cache) < config.IMAGE_CACHE_SIZE]

\* _get_gray_image up to its cache write: the image it returns and whether
\* the len(image_cache) < limit test passed, so that the write follows.
get_gray_image(cache, image_path) ==
    IF image_path \in DOMAIN cache
    THEN [img |-> cache[image_path], put |-> FALSE]
    ELSE LET img_gray == imread(image_path)
         IN IF ~img_gray.ok
            THEN [img |-> NoneImage, put |-> FALSE]
            ELSE [img |-> img_gray,
                  put |-> Cardinality(DOMAIN cache) < config.IMAGE_CACHE_SIZE]

NoDetail == [has_metric |-> FALSE, score |-> 0, over |-> 0, under |-> 0,
             is_defective |-> FALSE, defect_type |-> "None"]

\* detect_blur reporting an image that could not be read as blurred.
detect_blur_unread_is_blur(img_gray) ==
    IF ~img_gray.ok
    THEN [NoDetail EXCEPT !.is_defective = TRUE, !.defect_type = "blur"]
    ELSE LET is_blurry == img_gray.lap_var < BLUR_THRESHOLD
         IN [has_metric |-> TRUE, score |-> img_gray.lap_var,
             over |-> 0, under |-> 0,
             is_defective |-> is_blurry,
             defect_type |-> IF is_blurry THEN "blur" ELSE "None"]

detect_blur(img_gray) ==
    IF ~img_gray.ok THEN NoDetail
    ELSE LET is_blurry == img_gray.lap_var < BLUR_THRESHOLD
         IN [has_metric |-> TRUE, score |-> img_gray.lap_var,
             over |-> 0, under |-> 0,
             is_defective |-> is_blurry,
             defect_type |-> IF is_blurry THEN "blur" ELSE "None"]

detect_exposure(img_gray) ==
    IF ~img_gray.ok THEN NoDetail
    ELSE LET is_overexposed == img_gray.over > OVEREXPOSURE_THRESHOLD
             is_underexposed == img_gray.under > UNDEREXPOSURE_THRESHOLD
         IN [has_metric |-> TRUE, score |-> 0,
             over |-> img_gray.over, under |-> img_gray.under,
             is_defective |-> is_overexposed \/ is_underexposed,
             defect_type |-> IF is_overexposed THEN "overexposed"
                             ELSE IF is_underexposed THEN "underexposed"
                             ELSE "None"]

detect_closed_eyes ==
    [has_metric |-> TRUE, score |-> 0, over |-> 0, under |-> 0,
     is_defective |-> FALSE, defect_type |-> "None"]

\* The defect types with the exposure check's type ahead of the blur
\* check's.
defect_list_exposure_first(blur_result, eyes_result, exposure_result) ==
    (IF exposure_result.defect_type # "None"
       THEN <<exposure_result.defect_type>> ELSE <<>>)
    \o (IF blur_result.defect_type # "None"
          THEN <<blur_result.defect_type>> ELSE <<>>)
    \o (IF eyes_result.defect_type # "None"
          THEN <<eyes_result.defect_type>> ELSE <<>>)

\* The defect types in the order check_photo_quality appends them.
defect_list(blur_result, eyes_result, exposure_result) ==
    (IF blur_result.defect_type # "None"
       THEN <<blur_result.defect_type>> ELSE <<>>)
    \o (IF eyes_result.defect_type # "None"
          THEN <<eyes_result.defect_type>> ELSE <<>>)
    \o (IF exposure_result.defect_type # "None"
          THEN <<exposure_result.defect_type>> ELSE <<>>)

\* check_photo_quality on the buffers its two _get_gray_image calls gave.
\* details is <<>> for {} and <<d>> for the dict d; raised marks an
\* exception leaving the function instead of a report.
check_photo_quality(image_path, blur_img, exposure_img) ==
    LET blur_result == detect_blur(blur_img)
        exposure_result == detect_exposure(exposure_img)
        eyes_result == detect_closed_eyes
    IN [image_path |-> image_path,
        is_defective |-> blur_result.is_defective
                         \/ eyes_result.is_defective
                         \/ exposure_result.is_defective,
        defect_types |-> defect_list(blur_result, eyes_result, exposure_result),
        details |-> <<[blur |-> blur_result, eyes |-> eyes_result,
                       exposure |-> exposure_result]>>,
        raised |-> FALSE]

\* An exception leaving check_photo_quality: cv2.Laplacian raising inside
\* detect_blur, or the KeyError of image_cache[image_path] (line 23) when
\* the path left the cache after the test of line 22.
quality_exception(image_path) ==
    [image_path |-> image_path, is_defective |-> FALSE, defect_types |-> <<>>,
     details |-> <<>>, raised |-> TRUE]

\* process_batch_photos without its try/except: the exception leaves it.
process_batch_photos_no_except(path, result) == result

\* The except branch of process_batch_photos: the fallback record.
process_batch_photos(path, result) ==
    IF result.raised
    THEN [image_path |-> path, is_defective |-> FALSE, defect_types |-> <<>>,
          details |-> <<>>, raised |-> FALSE]
    ELSE result

\* ------------------------------------------------------ embedding provider
\* What the CLIP pipeline gives for a file once the model is loaded: "vec" a
\* normalised vector, "zero" a vector whose first ten components are below
\* 1e-6 in magnitude, "none" a failure (Image.open or the model raised).
encode_image(image_path) ==
    CASE image_path = Photo("B", 1, ".jpg") -> "none"
      [] image_path = Photo("B", 3, ".JPG") -> "zero"
      [] OTHER -> "vec"

get_image_embedding(clip, image_path) ==
    IF ~clip THEN "none"
    ELSE IF ~file_exists(image_path) THEN "none"
    ELSE encode_image(image_path)

\* get_text_embedding never failing once the provider is loaded.
get_text_embedding_unfailing(clip, text_ok) ==
    IF ~clip THEN "none" ELSE "vec"

\* PhotoSemanticSearch.get_text_embedding; text_ok: tokenize and encode_text
\* did not raise.
get_text_embedding(clip, text_ok) ==
    IF ~clip THEN "none"
    ELSE IF text_ok THEN "vec" ELSE "none"

\* ------------------------------------------------------------ vector store
\* The collection: its distance space and its entries, id -> entry.
NoEntries == [x \in {} |-> 0]

\* An entry a previous run of the process left in the persistent store.
StaleEntries ==
    <<<<9, ".jpg">>, 0>> :>
        [path |-> Photo("Z", 9, ".jpg"), filename |-> <<9, ".jpg">>,
         index |-> 0, embedding |-> "vec"]

collection_count(coll) == Cardinality(DOMAIN coll.entries)

\* A clear_collection after which the collection is what it was.
clear_collection_kept(coll) == coll

\* delete_collection, then get_or_create_collection(name) with no metadata:
\* the new collection has the store's default space.
clear_collection(coll) == [space |-> "l2", entries |-> NoEntries]

\* collection.add: ids already in the collection keep their entry.
collection_add(coll, new_entries) ==
    [coll EXCEPT !.entries = coll.entries @@ new_entries]

\* The ids collection.add inserts: those the collection did not hold.
added_ids(coll, new_entries) == DOMAIN new_entries \ DOMAIN coll.entries

\* The state of index_photos' loop before the first path.
IndexAcc0 ==
    [entries |-> NoEntries, indexed_filenames |-> {},
     indexed_count |-> 0, failed_count |-> 0]

\* The loop of index_photos from position idx (0-based, as enumerate).
RECURSIVE index_loop(_, _, _, _)
index_loop(clip, photo_paths, idx, acc) ==
    IF idx >= Len(photo_paths) THEN acc
    ELSE LET photo_path == photo_paths[idx + 1]
             filename == basename(photo_path)
             embedding == get_image_embedding(clip, photo_path)
             failed == [acc EXCEPT !.failed_count = @ + 1]
         IN IF ~file_exists(photo_path)
            THEN index_loop(clip, photo_paths, idx + 1, failed)
            ELSE IF filename \in acc.indexed_filenames
            THEN index_loop(clip, photo_paths, idx + 1, acc)
            ELSE IF embedding = "none"
            THEN index_loop(clip, photo_paths, idx + 1, failed)
            ELSE IF embedding = "zero"
            THEN index_loop(clip, photo_paths, idx + 1, failed)
            ELSE index_loop(clip, photo_paths, idx + 1,
                   [acc EXCEPT
                      !.entries = @ @@ (<<filename, idx>> :>
                          [path |-> photo_path, filename |-> filename,
                           index |-> idx, embedding |-> embedding]),
                      !.indexed_filenames = @ \cup {filename},
                      !.indexed_count = @ + 1])

\* index_photos without the clip_available test of lines 103-105.
index_photos_unguarded(coll, clip, photo_paths, clear_existing, add_ok) ==
    IF photo_paths = <<>>
    THEN [collection |-> coll, ret |-> 0, written |-> {}]
    ELSE LET cleared == IF clear_existing /\ collection_count(coll) > 0
                        THEN clear_collection(coll) ELSE coll
             acc == index_loop(clip, photo_paths, 0, IndexAcc0)
         IN IF DOMAIN acc.entries # {} /\ add_ok
            THEN [collection |-> collection_add(cleared, acc.entries),
                  ret |-> acc.indexed_count,
                  written |-> added_ids(cleared, acc.entries)]
            ELSE [collection |-> cleared, ret |-> 0, written |-> {}]

\* index_photos without the clear_existing branch of lines 110-114.
index_photos_keeping(coll, clip, photo_paths, clear_existing, add_ok) ==
    IF photo_paths = <<>> \/ ~clip
    THEN [collection |-> coll, ret |-> 0, written |-> {}]
    ELSE LET acc == index_loop(clip, photo_paths, 0, IndexAcc0)
         IN IF DOMAIN acc.entries # {} /\ add_ok
            THEN [collection |-> collection_add(coll, acc.entries),
                  ret |-> acc.indexed_count,
                  written |-> added_ids(coll, acc.entries)]
            ELSE [collection |-> coll, ret |-> 0, written |-> {}]

\* index_photos: the collection it leaves, the count it returns and the ids
\* it inserted. add_ok is whether the store's add succeeds.
index_photos(coll, clip, photo_paths, clear_existing, add_ok) ==
    IF photo_paths = <<>>
    THEN [collection |-> coll, ret |-> 0, written |-> {}]
    ELSE IF ~clip THEN [collection |-> coll, ret |-> 0, written |-> {}]
    ELSE LET cleared == IF clear_existing /\ collection_count(coll) > 0
                        THEN clear_collection(coll) ELSE coll
             acc == index_loop(clip, photo_paths, 0, IndexAcc0)
         IN IF DOMAIN acc.entries # {}
            THEN IF add_ok
                 THEN [collection |-> collection_add(cleared, acc.entries),
                       ret |-> acc.indexed_count,
                       written |-> added_ids(cleared, acc.entries)]
                 ELSE [collection |-> cleared, ret |-> 0, written |-> {}]
            ELSE [collection |-> cleared, ret |-> acc.indexed_count,
                  written |-> {}]

\* Distances a query may report, in hundredths (cosine distance is 0..2;
\* the default space is unbounded).
Distances == {0, 100, 200, 250}

\* What collection.query(n_results = n) may return: n distinct entries,
\* nearest first, each with its distance.
RECURSIVE QueryAnswers(_, _, _)
QueryAnswers(ids, n, least) ==
    IF n = 0 THEN {<<>>}
    ELSE UNION { { <<[id |-> id, distance |-> d]>> \o rest :
                     rest \in QueryAnswers(ids \ {id}, n - 1, d) } :
                 id \in ids, d \in { d \in Distances : d >= least } }

\* 1.0 - distance / 2.0 without the clamp of line 235.
similarity_unclamped(distance) == 200 - distance

\* max(0.0, min(1.0, 1.0 - distance / 2.0)), in two-hundredths.
similarity(distance) == Max(0, Min(200, 200 - distance))

\* What collection.query(n_results = min(top_k, count)) may do: raise
\* (ok = FALSE), or return up to that many hits.
StoreAnswers(coll, top_k) ==
    { [ok |-> FALSE, hits |-> <<>>] } \cup
    { [ok |-> TRUE, hits |-> hits] :
        hits \in UNION { QueryAnswers(DOMAIN coll.entries, m, 0) :
                           m \in 0..Min(top_k, collection_count(coll)) } }

\* search_photos numbering its results from 0.
search_photos_from_zero(coll, clip, text_ok, answer) ==
    IF ~clip \/ ~text_ok \/ collection_count(coll) = 0 \/ ~answer.ok
    THEN <<>>
    ELSE [idx \in 1..Len(answer.hits) |->
            [rank |-> idx - 1,
             similarity_score |-> similarity(answer.hits[idx].distance),
             path |-> coll.entries[answer.hits[idx].id].path,
             filename |-> coll.entries[answer.hits[idx].id].filename]]

\* PhotoSemanticSearch.search_photos, answer being what the store's query
\* does.
search_photos(coll, clip, text_ok, answer) ==
    IF ~clip THEN <<>>
    ELSE IF get_text_embedding(clip, text_ok) = "none" THEN <<>>
    ELSE IF collection_count(coll) = 0 THEN <<>>
    ELSE IF ~answer.ok THEN <<>>
    ELSE [idx \in 1..Len(answer.hits) |->
            [rank |-> idx,
             similarity_score |-> similarity(answer.hits[idx].distance),
             path |-> coll.entries[answer.hits[idx].id].path,
             filename |-> coll.entries[answer.hits[idx].id].filename]]

\* POST /search_photos, main.py lines 513-519: the status code and the
\* results of the reply.
search_photos_endpoint(qualified, coll, clip, text_ok, answer) ==
    IF qualified = <<>>
    THEN [status_code |-> 400, results |-> <<>>]
    ELSE [status_code |-> 200,
          results |-> search_photos(coll, clip, text_ok, answer)]

\* The results search_photos may give for top_k in the current state.
search_results(text_ok, top_k) ==
    { search_photos(collection, clip_available, text_ok, answer) :
        answer \in StoreAnswers(collection, top_k) }

\* ---------------------------------------------------------- the registry
NoTasks == [x \in {} |-> 0]
NoCache == [x \in {} |-> 0]

\* The record process_photos_async stores; result <<>> is None.
NewTask(task_id) ==
    [task_id |-> task_id, status |-> "pending", progress |-> 0,
     current |-> 0, total |-> 0, message |-> "created", result |-> <<>>]

\* A run of background_processing(task_id, folder_path) before its first
\* statement. scanned, statuses, progress_out, current_out, purged, outcome
\* and index_calls record what the run did, wrote and called.
NewExec(task_id, folder_path) ==
    [task_id |-> task_id, folder_path |-> folder_path, pc |-> "start",
     photo_paths |-> <<>>, total |-> 0, i |-> 0, futures |-> <<>>,
     quality_results |-> <<>>, qualified_photos |-> <<>>, qi |-> 0,
     indexed_count |-> 0,
     scanned |-> FALSE, statuses |-> {}, progress_out |-> 0,
     current_out |-> 0,
     purged |-> FALSE, outcome |-> "running", index_calls |-> <<>>]

\* str(int(time.time() * 1000))
new_task_id(now) == now

\* dict.update on a job record.
update(tasks, task_id, fields) ==
    [tasks EXCEPT ![task_id] = fields @@ @]

\* No call of index_photos from outside the pipeline yet.
NoCall ==
    [made |-> FALSE, photo_paths |-> <<>>, clear_existing |-> FALSE,
     add_ok |-> TRUE, before |-> [space |-> "cosine", entries |-> NoEntries],
     ret |-> 0, written |-> {}]

\* No call of search_photos yet.
NoSearch ==
    [made |-> FALSE, text_ok |-> TRUE, top_k |-> 0, count |-> 0,
     answer |-> [ok |-> TRUE, hits |-> <<>>], results |-> <<>>]

\* The configuration the pipeline runs with: small values, so that several
\* sub-batches, batches and chunks occur on few images.
RunConfig ==
    [MAX_WORKERS |-> 2, BATCH_SIZE |-> 4, IMAGE_CACHE_SIZE |-> 1,
     SEARCH_BATCH_SIZE |-> 2]

\* The state once main.py is imported, but for config.
Started ==
    /\ clock = 0
    /\ processing_tasks = NoTasks
    /\ execs = <<>>
    /\ image_cache = NoCache
    /\ collection \in { [space |-> "cosine", entries |-> NoEntries],
                        [space |-> "cosine", entries |-> StaleEntries] }
    /\ QUALIFIED_PHOTOS = <<>>
    /\ clip_available \in BOOLEAN
    /\ replies = <<>>
    /\ index_call = NoCall
    /\ search_call = NoSearch

Init ==
    /\ config = RunConfig
    /\ Started

\* What process_photos_async returns for folder_path at clock value now;
\* task_id <<>> is a reply without that key.
submit_reply(folder_path, now) ==
    IF ~os_path_exists(folder_path)
    THEN [status |-> "error", message |-> "path_not_found", task_id |-> <<>>]
    ELSE [status |-> "started", message |-> "started",
          task_id |-> <<new_task_id(now)>>]

\* POST /process_photos_async, its time.time() call returning now: the
\* clock does not run backwards, and may not have advanced since the last
\* call.
process_photos_async(folder_path, now) ==
    /\ Len(replies) < MaxSubmits
    /\ replies' = Append(replies, [folder_path |-> folder_path,
                                   reply |-> submit_reply(folder_path, now)])
    /\ IF ~os_path_exists(folder_path)
       THEN UNCHANGED <<config, clock, processing_tasks, execs, image_cache,
                        collection, QUALIFIED_PHOTOS, clip_available,
                        index_call, search_call>>
       ELSE LET task_id == new_task_id(now)
            IN /\ clock' = now
               /\ processing_tasks' =
                      (task_id :> NewTask(task_id)) @@ processing_tasks
               /\ execs' = Append(execs, NewExec(task_id, folder_path))
               /\ UNCHANGED <<config, image_cache, collection,
                              QUALIFIED_PHOTOS, clip_available, index_call, search_call>>

Registered(x) == x.task_id \in DOMAIN processing_tasks

\* processing_tasks[task_id] raised KeyError: control is in the handler.
Raised(x) == [x EXCEPT !.pc = "except"]

\* background_processing, lines 181-185.
bp_start(e) ==
    LET x == execs[e]
    IN /\ x.pc = "start"
       /\ IF Registered(x)
          THEN /\ processing_tasks' = update(processing_tasks, x.task_id,
                      [status |-> "initializing", progress |-> 0,
                       message |-> "scanning"])
               /\ execs' = [execs EXCEPT ![e] =
                      [x EXCEPT !.pc = "scan",
                                !.statuses = @ \cup {"initializing"},
                                !.progress_out = 0]]
          ELSE /\ execs' = [execs EXCEPT ![e] = Raised(x)]
               /\ UNCHANGED processing_tasks
       /\ UNCHANGED <<config, clock, image_cache, collection, QUALIFIED_PHOTOS,
                      clip_available, replies, index_call, search_call>>

\* A scan whose emptiness test never fires.
scan_never_empty(total) == FALSE

\* if total == 0
scan_is_empty(total) == total = 0

\* background_processing, lines 187-203.
bp_scan(e) ==
    LET x == execs[e]
        photo_paths == get_image_files(x.folder_path)
        total == Len(photo_paths)
        scanned == [x EXCEPT !.photo_paths = photo_paths, !.total = total,
                             !.scanned = TRUE]
    IN /\ x.pc = "scan"
       /\ IF ~Registered(x)
          THEN /\ execs' = [execs EXCEPT ![e] = Raised(scanned)]
               /\ UNCHANGED processing_tasks
          ELSE IF scan_is_empty(total)
          THEN /\ processing_tasks' = update(processing_tasks, x.task_id,
                      [status |-> "error", message |-> "no_images"])
               /\ execs' = [execs EXCEPT ![e] =
                      [scanned EXCEPT !.pc = "done",
                                      !.outcome = "error_empty",
                                      !.statuses = @ \cup {"error"}]]
          ELSE /\ processing_tasks' = update(processing_tasks, x.task_id,
                      [total |-> total, message |-> "found"])
               /\ execs' = [execs EXCEPT ![e] =
                      [scanned EXCEPT !.pc = "screen", !.i = 0]]
       /\ UNCHANGED <<config, clock, image_cache, collection, QUALIFIED_PHOTOS,
                      clip_available, replies, index_call, search_call>>

\* A submitted sub-batch: k is the position of the image in work, phase the
\* step of check_photo_quality it is at, gray and gray2 the buffers the two
\* _get_gray_image calls returned, failed an exception set on the future.
NewFuture(sub_batch) ==
    [sub_batch |-> sub_batch, k |-> 1, phase |-> "blur",
     gray |-> NoneImage, gray2 |-> NoneImage, st |-> "run",
     results |-> <<>>, failed |-> FALSE]

\* max(1, batch_size // config.MAX_WORKERS), line 218.
sub_batch_size == Max(1, config.BATCH_SIZE \div config.MAX_WORKERS)

\* The sub-batches of batch_paths that are of full size only: a shorter
\* last one is left out.
RECURSIVE sub_batches_truncated(_, _)
sub_batches_truncated(batch_paths, j) ==
    IF j + sub_batch_size > Len(batch_paths) THEN <<>>
    ELSE <<NewFuture(SubSeq(batch_paths, j + 1, j + sub_batch_size))>>
         \o sub_batches_truncated(batch_paths, j + sub_batch_size)

\* The sub-batches of batch_paths, lines 221-223.
RECURSIVE sub_batches(_, _)
sub_batches(batch_paths, j) ==
    IF j >= Len(batch_paths) THEN <<>>
    ELSE <<NewFuture(SubSeq(batch_paths, j + 1,
                            Min(j + sub_batch_size, Len(batch_paths))))>>
         \o sub_batches(batch_paths, j + sub_batch_size)

\* A join that never returns.
AllJoined_never(x) == FALSE

\* A batch loop that does not wait for its workers.
AllJoined_unwaited(x) == TRUE

\* The exit of the with ThreadPoolExecutor block: every future is done.
AllJoined(x) == \A j \in 1..Len(x.futures) : x.futures[j].st = "done"

\* int(current / total * 100); exact for totals below 50.
screening_progress(current, total) == (current * 100) \div total

\* The head of the batch loop, lines 205-223: the previous batch has joined.
bp_batch(e) ==
    LET x == execs[e]
        batch_paths == SubSeq(x.photo_paths, x.i + 1,
                              Min(x.i + config.BATCH_SIZE, x.total))
        current == Min(x.i + config.BATCH_SIZE, x.total)
        progress == screening_progress(current, x.total)
    IN /\ x.pc = "screen"
       /\ AllJoined(x)
       /\ x.i < x.total
       /\ IF Registered(x)
          THEN /\ processing_tasks' = update(processing_tasks, x.task_id,
                      [status |-> "processing", progress |-> progress,
                       current |-> current, message |-> "processing"])
               /\ execs' = [execs EXCEPT ![e] =
                      [x EXCEPT !.futures = sub_batches(batch_paths, 0),
                                !.i = x.i + config.BATCH_SIZE,
                                !.statuses = @ \cup {"processing"},
                                !.progress_out = progress,
                                !.current_out = current]]
          ELSE /\ execs' = [execs EXCEPT ![e] =
                      [Raised(x) EXCEPT !.futures = <<>>]]
               /\ UNCHANGED processing_tasks
       /\ UNCHANGED <<config, clock, image_cache, collection, QUALIFIED_PHOTOS,
                      clip_available, replies, index_call, search_call>>


\* A future's worker has a result (or an exception) for the image at k:
\* process_batch_photos appends and moves on; an exception leaving
\* process_batch_photos is set on the future.
image_done(f, path, result) ==
    LET r == process_batch_photos(path, result)
        idle == [f EXCEPT !.gray = NoneImage, !.gray2 = NoneImage,
                          !.phase = "blur"]
    IN IF r.raised
       THEN [idle EXCEPT !.st = "done", !.failed = TRUE, !.results = <<>>]
       ELSE IF f.k = Len(f.sub_batch)
       THEN [idle EXCEPT !.st = "done", !.results = Append(@, r)]
       ELSE [idle EXCEPT !.k = @ + 1, !.results = Append(@, r)]

\* detect_blur after its _get_gray_image call returned img.
after_blur(f, path, img) ==
    IF img.ok /\ img.bad
    THEN image_done(f, path, quality_exception(path))
    ELSE [f EXCEPT !.phase = "exposure", !.gray = img]

\* One step of a worker thread in check_photo_quality: the test of
\* _get_gray_image for the path in the cache (line 22), the read of the
\* cache that follows it (line 23), a _get_gray_image call up to its cache
\* write, or that write.
worker_step(cache, f) ==
    LET path == f.sub_batch[f.k]
        g == get_gray_image(cache, path)
    IN CASE f.phase = "blur" ->
              IF path \in DOMAIN cache
              THEN [future |-> [f EXCEPT !.phase = "blur_hit"],
                    cache |-> cache]
              ELSE IF g.put
              THEN [future |-> [f EXCEPT !.phase = "blur_put", !.gray = g.img],
                    cache |-> cache]
              ELSE [future |-> after_blur(f, path, g.img), cache |-> cache]
         [] f.phase = "blur_hit" ->
              IF path \in DOMAIN cache
              THEN [future |-> after_blur(f, path, g.img), cache |-> cache]
              ELSE [future |-> image_done(f, path, quality_exception(path)),
                    cache |-> cache]
         [] f.phase = "blur_put" ->
              [future |-> after_blur(f, path, f.gray),
               cache |-> (path :> f.gray) @@ cache]
         [] f.phase = "exposure" ->
              IF path \in DOMAIN cache
              THEN [future |-> [f EXCEPT !.phase = "exposure_hit"],
                    cache |-> cache]
              ELSE IF g.put
              THEN [future |-> [f EXCEPT !.phase = "exposure_put",
                                         !.gray2 = g.img],
                    cache |-> cache]
              ELSE [future |-> image_done(f, path,
                                  check_photo_quality(path, f.gray, g.img)),
                    cache |-> cache]
         [] f.phase = "exposure_hit" ->
              IF path \in DOMAIN cache
              THEN [future |-> image_done(f, path,
                                  check_photo_quality(path, f.gray, g.img)),
                    cache |-> cache]
              ELSE [future |-> image_done(f, path, quality_exception(path)),
                    cache |-> cache]
         [] f.phase = "exposure_put" ->
              [future |-> image_done(f, path,
                             check_photo_quality(path, f.gray, f.gray2)),
               cache |-> (path :> f.gray2) @@ cache]

\* check_photo_quality on the image at k0, from the worker's current phase
\* to the end of the image.
RECURSIVE run_image(_, _, _)
run_image(cache, f, k0) ==
    CHOOSE r \in { IF w.future.st = "done" \/ w.future.k # k0 THEN w
                   ELSE run_image(w.cache, w.future, k0) :
                   w \in { worker_step(cache, f) } } : TRUE

\* The pool runs at most MAX_WORKERS futures, in submission order.
Runnable(x, j) ==
    /\ x.futures[j].st # "done"
    /\ Cardinality({ m \in 1..(j - 1) : x.futures[m].st # "done" })
         < config.MAX_WORKERS

\* A worker of the pool screens the next image of its sub-batch;
\* as_completed hands a finished future's results to
\* quality_results.extend (lines 225-230).
pool_step(e, j) ==
    LET x == execs[e]
    IN /\ x.pc = "screen"
       /\ j \in 1..Len(x.futures)
       /\ Runnable(x, j)
       /\ \E w \in { run_image(image_cache, x.futures[j], x.futures[j].k) } :
             \E nf \in { w.future } :
                /\ image_cache' = w.cache
                /\ execs' = [execs EXCEPT ![e] =
                       IF nf.st = "done"
                       THEN [x EXCEPT !.futures[j] =
                                          [nf EXCEPT !.results = <<>>],
                                      !.quality_results = @ \o nf.results]
                       ELSE [x EXCEPT !.futures[j] = nf]]
       /\ UNCHANGED <<config, clock, processing_tasks, collection, QUALIFIED_PHOTOS,
                      clip_available, replies, index_call, search_call>>

NotDefective(r) == ~r.is_defective
IsDefective(r) == r.is_defective

\* The comprehension of line 234 without its filter.
qualified_of_unfiltered(quality_results) ==
    [n \in 1..Len(quality_results) |-> quality_results[n].image_path]

\* [r["image_path"] for r in quality_results if not r["is_defective"]]
qualified_of(quality_results) ==
    LET good == SelectSeq(quality_results, NotDefective)
    IN [n \in 1..Len(good) |-> good[n].image_path]

\* After the batch loop, lines 232-240.
bp_screened(e) ==
    LET x == execs[e]
        qualified_photos == qualified_of(x.quality_results)
        y == [x EXCEPT !.qualified_photos = qualified_photos,
                       !.futures = <<>>, !.indexed_count = 0, !.qi = 0]
    IN /\ x.pc = "screen"
       /\ AllJoined(x)
       /\ x.i >= x.total
       /\ image_cache' = NoCache
       /\ execs' = [execs EXCEPT ![e] =
              IF qualified_photos = <<>> THEN [y EXCEPT !.pc = "finish"]
              ELSE IF Registered(x) THEN [y EXCEPT !.pc = "index"]
              ELSE Raised(y)]
       /\ processing_tasks' =
              IF qualified_photos # <<>> /\ Registered(x)
              THEN update(processing_tasks, x.task_id,
                          [message |-> "indexing"])
              ELSE processing_tasks
       /\ UNCHANGED <<config, clock, collection, QUALIFIED_PHOTOS,
                      clip_available, replies, index_call, search_call>>

\* 70 + int((i + len(batch)) / len(qualified_photos) * 30)
indexing_progress(done, n) == 70 + (done * 30) \div n

\* The chunks taken from the end of the list.
search_batch_reversed(qualified_photos, i) ==
    SubSeq(qualified_photos,
           Max(1, Len(qualified_photos) - i - config.SEARCH_BATCH_SIZE + 1),
           Len(qualified_photos) - i)

\* batch = qualified_photos[i:i + search_batch_size], line 244.
search_batch(qualified_photos, i) ==
    SubSeq(qualified_photos, i + 1,
           Min(i + config.SEARCH_BATCH_SIZE, Len(qualified_photos)))

\* clear_flag of every chunk set.
clear_flag_always(i) == TRUE

\* clear_flag = (i == 0), line 245.
clear_flag(i) == (i = 0)

\* One chunk of the indexing loop, lines 243-252.
bp_index(e) ==
    LET x == execs[e]
        n == Len(x.qualified_photos)
        batch == search_batch(x.qualified_photos, x.qi)
        progress == indexing_progress(x.qi + Len(batch), n)
    IN /\ x.pc = "index"
       /\ \E add_ok \in BOOLEAN :
            LET r == index_photos(collection, clip_available, batch,
                                  clear_flag(x.qi), add_ok)
                y == [x EXCEPT !.indexed_count = @ + r.ret,
                               !.qi = @ + config.SEARCH_BATCH_SIZE,
                               !.index_calls = Append(@,
                                   [clear_existing |-> clear_flag(x.qi),
                                    photo_paths |-> batch,
                                    ret |-> r.ret,
                                    changed |-> r.collection # collection])]
            IN /\ collection' = r.collection
               /\ IF Registered(x)
                  THEN /\ processing_tasks' =
                              update(processing_tasks, x.task_id,
                                     [progress |-> progress,
                                      message |-> "index_progress"])
                       /\ execs' = [execs EXCEPT ![e] =
                              [y EXCEPT !.progress_out = progress,
                                        !.pc = IF y.qi < n THEN "index"
                                               ELSE "finish"]]
                  ELSE /\ execs' = [execs EXCEPT ![e] = Raised(y)]
                       /\ UNCHANGED processing_tasks
       /\ UNCHANGED <<config, clock, image_cache, QUALIFIED_PHOTOS,
                      clip_available, replies, index_call, search_call>>

\* The payload of lines 258-273.
result_data(x) ==
    [total_photos |-> x.total,
     bad_photos |-> Len(SelectSeq(x.quality_results, IsDefective)),
     qualified_photos |-> Len(x.qualified_photos),
     indexed_photos |-> x.indexed_count,
     photos |-> [n \in 1..Len(x.quality_results) |->
                   [image_path |-> x.quality_results[n].image_path,
                    filename |-> basename(x.quality_results[n].image_path),
                    is_defective |-> x.quality_results[n].is_defective,
                    defect_types |-> x.quality_results[n].defect_types]]]

\* Completion, lines 254-280.
bp_finish(e) ==
    LET x == execs[e]
    IN /\ x.pc = "finish"
       /\ QUALIFIED_PHOTOS' = x.qualified_photos
       /\ IF Registered(x)
          THEN /\ processing_tasks' = update(processing_tasks, x.task_id,
                      [status |-> "completed", progress |-> 100,
                       message |-> "done", result |-> <<result_data(x)>>])
               /\ execs' = [execs EXCEPT ![e] =
                      [x EXCEPT !.pc = "done", !.outcome = "completed",
                                !.statuses = @ \cup {"completed"},
                                !.progress_out = 100]]
          ELSE /\ execs' = [execs EXCEPT ![e] = Raised(x)]
               /\ UNCHANGED processing_tasks
       /\ UNCHANGED <<config, clock, image_cache, collection,
                      clip_available, replies, index_call, search_call>>

\* The handler, lines 282-286; a KeyError in it ends the run.
bp_except(e) ==
    LET x == execs[e]
    IN /\ x.pc = "except"
       /\ IF Registered(x)
          THEN /\ processing_tasks' = update(processing_tasks, x.task_id,
                      [status |-> "error", message |-> "failed"])
               /\ execs' = [execs EXCEPT ![e] =
                      [x EXCEPT !.pc = "done", !.outcome = "error_exception",
                                !.statuses = @ \cup {"error"}]]
          ELSE /\ execs' = [execs EXCEPT ![e] =
                      [x EXCEPT !.pc = "done", !.outcome = "crashed"]]
               /\ UNCHANGED processing_tasks
       /\ UNCHANGED <<config, clock, image_cache, collection, QUALIFIED_PHOTOS,
                      clip_available, replies, index_call, search_call>>

\* A status endpoint that answers 200 for every id.
get_processing_status_lenient(tasks, task_id) ==
    [status_code |-> 200,
     body |-> IF task_id \in DOMAIN tasks THEN <<tasks[task_id]>> ELSE <<>>]

\* GET /processing_status/{task_id}: 404, or the record as it is now.
get_processing_status(tasks, task_id) ==
    IF task_id \notin DOMAIN tasks
    THEN [status_code |-> 404, body |-> <<>>]
    ELSE [status_code |-> 200, body |-> <<tasks[task_id]>>]

\* GET /clear_cache. Runs in flight lose their record (purged).
clear_cache ==
    /\ processing_tasks' = NoTasks
    /\ image_cache' = NoCache
    /\ collection' = clear_collection(collection)
    /\ QUALIFIED_PHOTOS' = <<>>
    /\ execs' = [e \in 1..Len(execs) |->
                   IF execs[e].pc # "done"
                   THEN [execs[e] EXCEPT !.purged = TRUE] ELSE execs[e]]
    /\ UNCHANGED <<config, clock, clip_available, replies, index_call, search_call>>

Submit ==
    \E folder_path \in Folders, now \in clock..MaxClock :
        process_photos_async(folder_path, now)

Start == \E e \in 1..Len(execs) : bp_start(e)
Scan == \E e \in 1..Len(execs) : bp_scan(e)
Batch == \E e \in 1..Len(execs) : bp_batch(e)
Work == \E e \in 1..Len(execs) :
            \E j \in 1..Len(execs[e].futures) : pool_step(e, j)
Screened == \E e \in 1..Len(execs) : bp_screened(e)
Index == \E e \in 1..Len(execs) : bp_index(e)
Finish == \E e \in 1..Len(execs) : bp_finish(e)
Except == \E e \in 1..Len(execs) : bp_except(e)

Next ==
    \/ Submit
    \/ Start
    \/ Scan
    \/ Batch
    \/ Work
    \/ Screened
    \/ Index
    \/ Finish
    \/ Except
    \/ clear_cache

Spec == Init /\ [][Next]_vars


\* ------------------------------------------- the worker threads, step by step
\* The same pipeline with the threads of the pool interleaved inside
\* _get_gray_image: the len(image_cache) < limit test and the cache write it
\* guards are separate steps of a thread. One job is submitted.
RaceConfigs ==
    { [RunConfig EXCEPT !.IMAGE_CACHE_SIZE = n, !.MAX_WORKERS = w] :
        n \in 1..2, w \in 1..2 }

RaceInit ==
    /\ config \in RaceConfigs
    /\ Started

\* One step of the thread running future j of execution e.
thread_step(e, j) ==
    LET x == execs[e]
        w == worker_step(image_cache, x.futures[j])
        nf == w.future
    IN /\ x.pc = "screen"
       /\ j \in 1..Len(x.futures)
       /\ Runnable(x, j)
       /\ image_cache' = w.cache
       /\ execs' = [execs EXCEPT ![e] =
              IF nf.st = "done"
              THEN [x EXCEPT !.futures[j] = [nf EXCEPT !.results = <<>>],
                             !.quality_results = @ \o nf.results]
              ELSE [x EXCEPT !.futures[j] = nf]]
       /\ UNCHANGED <<config, clock, processing_tasks, collection,
                      QUALIFIED_PHOTOS, clip_available, replies, index_call, search_call>>

SubmitOne ==
    /\ replies = <<>>
    /\ \E folder_path \in Folders : process_photos_async(folder_path, clock)

Thread == \E e \in 1..Len(execs) :
              \E j \in 1..Len(execs[e].futures) : thread_step(e, j)

RaceNext ==
    \/ SubmitOne
    \/ Start
    \/ Scan
    \/ Batch
    \/ Thread
    \/ Screened
    \/ Index
    \/ Finish
    \/ Except
    \/ clear_cache

RaceSpec == RaceInit /\ [][RaceNext]_vars


\* ------------------------------------------------- index_photos, called alone
\* Calls of semantic_search.index_photos one after the other on the
\* persistent store, as POST /process_photos makes them, with any list of
\* paths: photos of A, the photo of A/old named like one of A, a file that
\* cannot be embedded, one with a degenerate embedding, and a path with no
\* file behind it.
IndexPaths ==
    { Photo("A", 1, ".jpg"), Photo("A/old", 1, ".jpg"), Photo("A", 2, ".jpg"),
      Photo("B", 1, ".jpg"), Photo("B", 3, ".JPG"), Photo("A", 8, ".jpg") }

PathLists == UNION { [1..n -> IndexPaths] : n \in 0..MaxPaths }

IndexInit ==
    /\ config = RunConfig
    /\ Started

IndexPhotos ==
    \E photo_paths \in PathLists, clear_existing \in BOOLEAN,
       add_ok \in BOOLEAN :
        LET r == index_photos(collection, clip_available, photo_paths,
                              clear_existing, add_ok)
        IN /\ collection' = r.collection
           /\ index_call' = [made |-> TRUE, photo_paths |-> photo_paths,
                             clear_existing |-> clear_existing,
                             add_ok |-> add_ok, before |-> collection,
                             ret |-> r.ret, written |-> r.written]
           /\ UNCHANGED <<config, clock, processing_tasks, execs, image_cache,
                          QUALIFIED_PHOTOS, clip_available, replies,
                          search_call>>

IndexNext == IndexPhotos

IndexSpec == IndexInit /\ [][IndexNext]_vars


\* ------------------------------------------------ search_photos, called alone
\* Searches on the persistent store, between calls of index_photos that
\* replace its contents (clear_existing = TRUE, as the first chunk of a job)
\* and clears of the store.
SearchInit ==
    /\ config = RunConfig
    /\ Started

SearchPhotos ==
    \E text_ok \in BOOLEAN, top_k \in 0..MaxTopK :
        \E answer \in StoreAnswers(collection, top_k) :
            /\ search_call' =
                  [made |-> TRUE, text_ok |-> text_ok, top_k |-> top_k,
                   count |-> collection_count(collection), answer |-> answer,
                   results |-> search_photos(collection, clip_available,
                                             text_ok, answer)]
            /\ UNCHANGED <<config, clock, processing_tasks, execs, image_cache,
                           collection, QUALIFIED_PHOTOS, clip_available,
                           replies, index_call>>

Reindex ==
    \E photo_paths \in PathLists :
        /\ collection' = index_photos(collection, clip_available, photo_paths,
                                      TRUE, TRUE).collection
        /\ search_call' = NoSearch
        /\ UNCHANGED <<config, clock, processing_tasks, execs, image_cache,
                       QUALIFIED_PHOTOS, clip_available, replies, index_call>>

ClearStore ==
    /\ collection' = clear_collection(collection)
    /\ search_call' = NoSearch
    /\ UNCHANGED <<config, clock, processing_tasks, execs, image_cache,
                   QUALIFIED_PHOTOS, clip_available, replies, index_call>>

SearchNext ==
    \/ SearchPhotos
    \/ Reindex
    \/ ClearStore

SearchSpec == SearchInit /\ [][SearchNext]_vars


\* ----------------------------------- the batch loop under other configurations
\* One job, for every BATCH_SIZE and MAX_WORKERS up to the bounds, worker
\* counts above the batch size included.
BatchConfigs ==
    { [RunConfig EXCEPT !.BATCH_SIZE = b, !.MAX_WORKERS = w] :
        b \in 1..MaxBatch, w \in 1..MaxWorkers }

BatchInit ==
    /\ config \in BatchConfigs
    /\ Started

BatchNext ==
    \/ SubmitOne
    \/ Start
    \/ Scan
    \/ Batch
    \/ Work
    \/ Screened
    \/ Index
    \/ Finish

BatchSpec == BatchInit /\ [][BatchNext]_vars

\* ------------------------------------------------ the pipeline without clears
\* The threads of the executions and of their worker pools are scheduled
\* fairly; submits come when the clients send them.
Run ==
    \/ Start
    \/ Scan
    \/ Batch
    \/ Work
    \/ Screened
    \/ Index
    \/ Finish

LiveNext ==
    \/ Submit
    \/ Run

\* A process started on an empty store.
LiveInit ==
    /\ Init
    /\ collection.entries = NoEntries

LiveSpec == LiveInit /\ [][LiveNext]_vars /\ WF_vars(Run)

\* ------------------------------------------------------ jobs one at a time
\* A job is submitted only when no execution is running, and no clear is
\* issued.
SubmitWhenIdle ==
    /\ \A e \in 1..Len(execs) : execs[e].pc = "done"
    /\ Submit

SeqNext ==
    \/ SubmitWhenIdle
    \/ Run

SeqSpec == Init /\ [][SeqNext]_vars

\* ------------------------------------------------------------------ claims
Execs == 1..Len(execs)

\* Images of the run whose check_photo_quality call has returned.
RECURSIVE results_held(_, _)
results_held(futures, j) ==
    IF j > Len(futures) THEN 0
    ELSE Len(futures[j].results) + results_held(futures, j + 1)

images_screened(x) == Len(x.quality_results) + results_held(x.futures, 1)

\* C1: the progress values one execution writes to its job never decrease
\* from one update to the next.
C1_ProgressNeverDecreases ==
    [][\A e \in Execs : execs'[e].progress_out >= execs[e].progress_out]_vars

StatusEdges ==
    { <<"pending", "initializing">>, <<"initializing", "processing">>,
      <<"processing", "completed">>, <<"initializing", "error">>,
      <<"processing", "error">> }

\* C2: every change of a job record's status is one of the edges
\* pending -> initializing -> processing -> completed and
\* initializing/processing -> error.
C2_StatusFollowsEdges ==
    [][\A id \in DOMAIN processing_tasks \cap DOMAIN processing_tasks' :
          processing_tasks'[id].status # processing_tasks[id].status
          => <<processing_tasks[id].status, processing_tasks'[id].status>>
                 \in StatusEdges]_vars

\* C3: two submits never return the same job id, so no two executions
\* write the same job record.
C3_JobIdsUnique ==
    \A e1 \in Execs, e2 \in Execs :
        e1 # e2 => execs[e1].task_id # execs[e2].task_id

\* C4: a job whose status is completed has progress 100.
C4_CompletedHasProgress100 ==
    \A id \in DOMAIN processing_tasks :
        processing_tasks[id].status = "completed"
        => processing_tasks[id].progress = 100

\* C5: while an execution is in its screening pass, the progress it has
\* published is at most 70.
C5_ScreeningProgressAtMost70 ==
    \A e \in Execs : execs[e].pc = "screen" => execs[e].progress_out <= 70

\* C6: during the screening pass, at least as many images have finished
\* quality screening as the published current says.
C6_CurrentCountsFinishedImages ==
    \A e \in Execs :
        execs[e].pc = "screen"
        => execs[e].current_out <= images_screened(execs[e])

MissingFolders == Folders \ ExistingFolders

C8_EmptyScanEndsInError ==
    \A e \in Execs :
        execs[e].scanned /\ execs[e].total = 0
        => /\ "processing" \notin execs[e].statuses
           /\ "completed" \notin execs[e].statuses
           /\ execs[e].quality_results = <<>>
           /\ execs[e].futures = <<>>
           /\ execs[e].index_calls = <<>>
           /\ execs[e].pc \in {"done", "except"}
           /\ ~execs[e].purged
              => /\ execs[e].pc = "done"
                 /\ execs[e].outcome = "error_empty"
                 /\ "error" \in execs[e].statuses

C8_Witness ==
    \E e \in Execs :
        /\ execs[e].scanned /\ execs[e].total = 0
        /\ execs[e].outcome = "error_empty"
        /\ execs[e].task_id \in DOMAIN processing_tasks
        /\ processing_tasks[execs[e].task_id].status = "error"
        /\ processing_tasks[execs[e].task_id].message = "no_images"

\* C9: an execution whose scan found an image and whose job no clear purged
\* never enters the exception handler and, once over, has written completed
\* and never error, with one report per scanned image, whichever images fail
\* to decode or to embed.
C9_FailuresNeverAbortTheJob ==
    \A e \in Execs :
        execs[e].scanned /\ execs[e].total >= 1 /\ ~execs[e].purged
        => /\ execs[e].pc # "except"
           /\ "error" \notin execs[e].statuses
           /\ execs[e].pc \in {"index", "finish", "done"}
              => Len(execs[e].quality_results) = execs[e].total
           /\ execs[e].pc = "done"
              => /\ execs[e].outcome = "completed"
                 /\ "completed" \in execs[e].statuses

\* A run on folder B (a file cv2 cannot read, one on which the Laplacian
\* raises, one whose embedding fails, one whose embedding is degenerate) is
\* completed, and an index_photos call of it returned 0.
C9_Witness ==
    \E e \in Execs :
        /\ execs[e].folder_path = "B"
        /\ clip_available
        /\ execs[e].outcome = "completed"
        /\ ~execs[e].purged
        /\ \E n \in 1..Len(execs[e].index_calls) :
              execs[e].index_calls[n].ret = 0
        /\ execs[e].indexed_count >= 1

\* C10: with the embedding provider unavailable every index_photos call
\* returns 0 and leaves the collection as it was, every search returns the
\* empty list, and an execution that found an image and was not purged ends
\* completed with indexed_photos = 0.
C10_ProviderUnavailableDegrades ==
    ~clip_available
    => /\ \A e \in Execs :
             /\ \A n \in 1..Len(execs[e].index_calls) :
                   /\ execs[e].index_calls[n].ret = 0
                   /\ ~execs[e].index_calls[n].changed
             /\ execs[e].indexed_count = 0
             /\ execs[e].pc = "done" /\ execs[e].total >= 1
                /\ ~execs[e].purged
                => execs[e].outcome = "completed"
       /\ \A id \in DOMAIN processing_tasks :
             processing_tasks[id].status = "completed"
             => processing_tasks[id].result[1].indexed_photos = 0
       /\ \A text_ok \in BOOLEAN, top_k \in 1..MaxTopK :
             search_results(text_ok, top_k) = {<<>>}

C10_Witness ==
    /\ ~clip_available
    /\ collection.entries = StaleEntries
    /\ \E e \in Execs :
          /\ execs[e].outcome = "completed"
          /\ Len(execs[e].index_calls) = 2
          /\ execs[e].task_id \in DOMAIN processing_tasks
          /\ processing_tasks[execs[e].task_id].status = "completed"


Completed(id) == processing_tasks[id].status = "completed"

\* The set of elements of a sequence.
Range(seq) == { seq[n] : n \in 1..Len(seq) }

\* C11: the result of a completed job has total_photos = the number of
\* scanned images of the execution that wrote it, one summary per scanned
\* image, bad_photos = the number of defective summaries, and
\* bad_photos + qualified_photos = total_photos.
C11_ResultCountsAgree ==
    \A id \in DOMAIN processing_tasks :
        Completed(id)
        => LET r == processing_tasks[id].result[1]
               defective == { n \in 1..Len(r.photos) : r.photos[n].is_defective }
           IN /\ Len(r.photos) = r.total_photos
              /\ r.bad_photos = Cardinality(defective)
              /\ r.bad_photos + r.qualified_photos = r.total_photos
              /\ \E e \in Execs :
                    /\ execs[e].task_id = id
                    /\ execs[e].outcome = "completed"
                    /\ r.total_photos = Len(get_image_files(execs[e].folder_path))
                    /\ { r.photos[n].image_path : n \in 1..Len(r.photos) }
                         = Range(get_image_files(execs[e].folder_path))

\* A completed job on folder B: five images, two of them defective, the
\* summaries not in scan order.
C11_Witness ==
    \E id \in DOMAIN processing_tasks :
        /\ Completed(id)
        /\ processing_tasks[id].result[1].total_photos = 5
        /\ processing_tasks[id].result[1].bad_photos = 2
        /\ processing_tasks[id].result[1].qualified_photos = 3
        /\ processing_tasks[id].result[1].photos[1].image_path
             # get_image_files("B")[1]

\* C12: a job record holds a result if and only if its status is completed.
C12_ResultIffCompleted ==
    \A id \in DOMAIN processing_tasks :
        processing_tasks[id].result # <<>> <=> Completed(id)

\* C13: every job record has 0 <= progress <= 100 and 0 <= current <= total.
C13_ProgressAndCurrentInRange ==
    \A id \in DOMAIN processing_tasks :
        /\ processing_tasks[id].progress \in 0..100
        /\ processing_tasks[id].current \in 0..processing_tasks[id].total


\* The ids a status request may name: every id submit can return, and one
\* it never returns.
AskedIds == 0..(MaxClock + 1)

StatusAnswers(tasks) ==
    \A id \in AskedIds :
        LET answer == get_processing_status(tasks, id)
        IN /\ answer.status_code = 404 <=> id \notin DOMAIN tasks
           /\ id \in DOMAIN tasks
              => answer = [status_code |-> 200, body |-> <<tasks[id]>>]

\* C14: a status request is answered 404 exactly when the id is not in the
\* registry, and otherwise with the record as it is; the id a submit returns
\* is answered with the new record as soon as the submit has returned, and
\* an id leaves the registry only in a step that empties it (a clear).
C14_StatusFoundUntilCleared ==
    [][ /\ StatusAnswers(processing_tasks')
        /\ \A id \in DOMAIN processing_tasks :
              \/ get_processing_status(processing_tasks', id).status_code = 200
              \/ processing_tasks' = NoTasks
        /\ Len(replies') > Len(replies)
           /\ replies'[Len(replies')].reply.status = "started"
           => LET id == replies'[Len(replies')].reply.task_id[1]
              IN get_processing_status(processing_tasks', id)
                   = [status_code |-> 200, body |-> <<NewTask(id)>>] ]_vars

\* One job was cleared away while running, so its id is answered 404, and
\* another, submitted later, is answered with a snapshot while it is being
\* screened.
C14_Witness ==
    \E e1 \in Execs, e2 \in Execs :
        /\ execs[e1].purged
        /\ get_processing_status(processing_tasks,
                                 execs[e1].task_id).status_code = 404
        /\ execs[e2].pc = "screen"
        /\ get_processing_status(processing_tasks,
                                 execs[e2].task_id).status_code = 200
        /\ get_processing_status(processing_tasks, execs[e2].task_id)
             .body[1].status = "processing"


\* No execution is in flight.
Idle == \A e \in Execs : execs[e].pc = "done"

C16_ClearDoesNotInterrupt ==
    \A e \in Execs :
        /\ execs[e].purged
        /\ execs[e].pc = "done"
        /\ execs[e].scanned
        /\ execs[e].total >= 1
        => /\ Len(execs[e].quality_results) = execs[e].total
           /\ execs[e].qualified_photos = qualified_of(execs[e].quality_results)
           /\ execs[e].qi >= Len(execs[e].qualified_photos)


\* C17: the decode cache never holds more entries than the configured
\* capacity.
C17_CacheWithinCapacity ==
    Cardinality(DOMAIN image_cache) <= config.IMAGE_CACHE_SIZE


\* A path index_photos can index: the file exists and its embedding is a
\* proper vector.
Indexable(photo_path) ==
    file_exists(photo_path) /\ encode_image(photo_path) = "vec"

\* The file names that occur more than once in photo_paths, every
\* occurrence being indexable.
SharedNames(photo_paths) ==
    { basename(photo_paths[m]) : m \in
        { m \in 1..Len(photo_paths) :
            /\ \E n \in 1..Len(photo_paths) :
                  n # m /\ basename(photo_paths[n]) = basename(photo_paths[m])
            /\ \A n \in 1..Len(photo_paths) :
                  basename(photo_paths[n]) = basename(photo_paths[m])
                  => Indexable(photo_paths[n]) } }

\* Position (from 1) of the first path of photo_paths named filename.
FirstNamed(photo_paths, filename) ==
    CHOOSE m \in 1..Len(photo_paths) :
        /\ basename(photo_paths[m]) = filename
        /\ \A n \in 1..(m - 1) : basename(photo_paths[n]) # filename

\* C18: after an index_photos call with the provider available and the
\* store's add succeeding, for every file name shared by several indexable
\* paths of the call exactly one entry with that name was written by the
\* call, it is the entry of the first such path, and the returned count has
\* one unit per indexable file name.
C18_SharedFilenameIndexedOnce ==
    index_call.made /\ clip_available /\ index_call.add_ok
    => /\ \A filename \in SharedNames(index_call.photo_paths) :
             LET first == FirstNamed(index_call.photo_paths, filename)
                 named == { id \in index_call.written :
                              collection.entries[id].filename = filename }
             IN /\ Cardinality(named) = 1
                /\ \A id \in named :
                      /\ collection.entries[id].path
                           = index_call.photo_paths[first]
                      /\ collection.entries[id].index = first - 1
       /\ index_call.ret =
             Cardinality({ basename(index_call.photo_paths[m]) :
                             m \in { m \in 1..Len(index_call.photo_paths) :
                                       Indexable(index_call.photo_paths[m]) } })

\* C19: the count an index_photos call returns is the number of entries the
\* call inserted into the store; when the store's add fails the call
\* returns 0 and has inserted nothing.
C19_ReturnsEntriesWritten ==
    index_call.made
    => /\ index_call.ret = Cardinality(index_call.written)
       /\ ~index_call.add_ok
          => index_call.ret = 0 /\ index_call.written = {}

C21_SearchDegradesToEmpty ==
    search_call.made
    => ((\/ search_call.count = 0
         \/ ~clip_available
         \/ ~search_call.text_ok
         \/ ~search_call.answer.ok)
        => search_call.results = <<>>)

\* A search whose text embedding failed, on a store that held entries and
\* would have answered with hits, returned the empty list.
C21_Witness ==
    /\ search_call.made
    /\ clip_available
    /\ ~search_call.text_ok
    /\ search_call.count > 0
    /\ search_call.answer.ok
    /\ search_call.answer.hits # <<>>
    /\ search_call.results = <<>>

\* C22: a search returns at most min(top_k, stored count) results, in the
\* order the store answered, and their ranks are exactly 1..n.
C22_AtMostTopKInStoreOrder ==
    search_call.made
    => /\ Len(search_call.results)
            <= Min(search_call.top_k, search_call.count)
       /\ Len(search_call.results) <= Len(search_call.answer.hits)
       /\ \A n \in 1..Len(search_call.results) :
             /\ search_call.results[n].rank = n
             /\ search_call.results[n].path
                  = collection.entries[search_call.answer.hits[n].id].path
             /\ search_call.results[n].filename
                  = collection.entries[search_call.answer.hits[n].id].filename

\* A search asking for more results than the store holds returned one result
\* per entry, and one asking for two of two returned ranks 1 and 2.
C22_Witness ==
    /\ search_call.made
    /\ search_call.top_k = MaxTopK
    /\ search_call.count = MaxTopK
    /\ Len(search_call.results) = MaxTopK
    /\ search_call.results[1].path # search_call.results[MaxTopK].path

\* 1 - d/2 held between 0 and 1, in two-hundredths, written without min and
\* max.
Clamped(distance) ==
    IF distance <= 0 THEN 200
    ELSE IF distance >= 200 THEN 0
    ELSE 200 - distance

\* C23: every similarity_score is 1 - d/2 clamped to [0, 1] for the distance
\* d the store reported: 1 at distance 0, 0 at distance 2 and beyond, never
\* increasing with the distance.
C23_SimilarityIsClampedDistance ==
    search_call.made
    => /\ \A n \in 1..Len(search_call.results) :
             /\ search_call.results[n].similarity_score
                  = Clamped(search_call.answer.hits[n].distance)
             /\ search_call.results[n].similarity_score \in 0..200
             /\ search_call.answer.hits[n].distance = 0
                  => search_call.results[n].similarity_score = 200
             /\ search_call.answer.hits[n].distance >= 200
                  => search_call.results[n].similarity_score = 0
       /\ \A m, n \in 1..Len(search_call.results) :
             search_call.answer.hits[m].distance
                  <= search_call.answer.hits[n].distance
             => search_call.results[m].similarity_score
                  >= search_call.results[n].similarity_score

\* A search returned a result at distance 0 and one beyond distance 2.
C23_Witness ==
    /\ search_call.made
    /\ Len(search_call.results) = 2
    /\ search_call.answer.hits[1].distance = 0
    /\ search_call.answer.hits[2].distance > 200
    /\ search_call.results[1].similarity_score = 200
    /\ search_call.results[2].similarity_score = 0

\* C24: in every reachable state, after a clear of the store and after an
\* index_photos call with clear_existing = TRUE included, the collection
\* that searches query is configured for cosine distance.
C24_CollectionAlwaysCosine ==
    collection.space = "cosine"

\* The files of a folder whose extension is one of the scanner's spellings.
Matching(folder_path) ==
    { f \in FileSystem : f.dir = folder_path /\ f.ext \in image_extensions }

\* C25: a scan returns each matching path exactly once, in strictly
\* ascending lexical order, and two scans of the same unchanged folder
\* return the same sequence.
C25_ScanSortedWithoutRepeats ==
    \A e \in Execs :
        execs[e].scanned
        => /\ Range(execs[e].photo_paths) = Matching(execs[e].folder_path)
           /\ Len(execs[e].photo_paths)
                = Cardinality(Matching(execs[e].folder_path))
           /\ \A m, n \in 1..Len(execs[e].photo_paths) :
                 m < n => PathLess(execs[e].photo_paths[m],
                                   execs[e].photo_paths[n])
           /\ \A d \in Execs :
                 execs[d].scanned /\ execs[d].folder_path = execs[e].folder_path
                 => execs[d].photo_paths = execs[e].photo_paths

\* Two executions scanned the folder with five matching files of four
\* different extensions.
C25_Witness ==
    \E d, e \in Execs :
        /\ d # e
        /\ execs[d].scanned /\ execs[e].scanned
        /\ execs[d].folder_path = "B" /\ execs[e].folder_path = "B"
        /\ Len(execs[e].photo_paths) = 5
        /\ Cardinality({ f.ext : f \in Range(execs[e].photo_paths) }) > 3

\* An extension in lower case.
lower(ext) ==
    CASE ext \in {".jpg", ".JPG", ".Jpg"} -> ".jpg"
      [] ext \in {".jpeg", ".JPEG"} -> ".jpeg"
      [] ext \in {".png", ".PNG"} -> ".png"
      [] ext \in {".bmp", ".BMP"} -> ".bmp"
      [] OTHER -> ext

\* C26: a scan matches the extensions jpg, jpeg, png and bmp whatever their
\* letter case, mixed case such as .Jpg included.
C26_ExtensionsMatchedInAnyCase ==
    \A e \in Execs :
        execs[e].scanned
        => \A f \in FileSystem :
              /\ f.dir = execs[e].folder_path
              /\ lower(f.ext) \in {".jpg", ".jpeg", ".png", ".bmp"}
              => f \in Range(execs[e].photo_paths)

\* The quality reports the screening workers have returned so far.
Reports ==
    UNION { Range(execs[e].quality_results)
              \cup UNION { Range(execs[e].futures[j].results) :
                             j \in 1..Len(execs[e].futures) } :
            e \in Execs }

\* The defect type of a check that triggered.
Triggered(check) ==
    IF check.is_defective THEN <<check.defect_type>> ELSE <<>>

\* C27: a report's is_defective is the OR of its blur, exposure and eyes
\* checks, its defect_types are the types of the triggered checks in the
\* order blur, exposure kind, eyes, and is_defective holds exactly when
\* defect_types is not empty.
C27_DefectiveIsOrOfChecks ==
    \A r \in Reports :
        /\ r.is_defective <=> r.defect_types # <<>>
        /\ r.details # <<>>
           => /\ r.is_defective <=> \/ r.details[1].blur.is_defective
                                    \/ r.details[1].exposure.is_defective
                                    \/ r.details[1].eyes.is_defective
              /\ r.defect_types = Triggered(r.details[1].blur)
                                  \o Triggered(r.details[1].exposure)
                                  \o Triggered(r.details[1].eyes)

\* One report lists blur then underexposed, another only overexposed, a
\* third nothing.
C27_Witness ==
    /\ \E r \in Reports : r.defect_types = <<"blur", "underexposed">>
    /\ \E r \in Reports : r.defect_types = <<"overexposed">>
    /\ \E r \in Reports : r.details # <<>> /\ ~r.is_defective

\* C28 as stated: the report of an image that cannot be read is not
\* defective, has no defect types and has empty details.
C28_UnreadableHasEmptyDetails ==
    \A r \in Reports :
        ~imread(r.image_path).ok
        => /\ ~r.is_defective
           /\ r.defect_types = <<>>
           /\ r.details = <<>>

\* C28 as amended: the report of an image that cannot be read is not
\* defective and has no defect types; its details hold the three checks'
\* entries, those of blur and exposure not defective and without a
\* measurement, that of eyes the stub's.
C28_UnreadableIsNotDefective ==
    \A r \in Reports :
        ~imread(r.image_path).ok
        => /\ ~r.is_defective
           /\ r.defect_types = <<>>
           /\ r.details = <<[blur |-> NoDetail, eyes |-> detect_closed_eyes,
                             exposure |-> NoDetail]>>
           /\ ~r.details[1].blur.has_metric
           /\ ~r.details[1].exposure.has_metric

\* The unreadable file of folder B has been screened, in a batch whose other
\* images were screened too.
C28_Witness ==
    \E e \in Execs :
        /\ \E r \in Range(execs[e].quality_results) :
              ~imread(r.image_path).ok /\ ~r.is_defective
        /\ \E r \in Range(execs[e].quality_results) :
              imread(r.image_path).ok

\* What check_photo_quality gives for a path when it runs alone on an empty
\* cache, as the batch worker records it.
Fresh(image_path) ==
    process_batch_photos(image_path,
        IF imread(image_path).ok /\ imread(image_path).bad
        THEN quality_exception(image_path)
        ELSE check_photo_quality(image_path, imread(image_path),
                                 imread(image_path)))

\* The reports of one execution.
ReportsOf(e) ==
    Range(execs[e].quality_results)
      \cup UNION { Range(execs[e].futures[j].results) :
                     j \in 1..Len(execs[e].futures) }

\* C29: whether a worker takes the decoded image from the cache or decodes
\* it afresh, and however the other workers' cache writes interleave with
\* its steps, the report check_photo_quality returns has the is_defective
\* and the defect_types of a run alone on an empty cache, so two runs on the
\* same bytes agree; in a run during which the cache is not cleared every
\* recorded report, the batch worker's fallback included, is that of a run
\* alone.
C29_SameVerdictCachedOrFresh ==
    \A e \in Execs :
        \A r \in ReportsOf(e) :
            ~execs[e].purged \/ r.details # <<>>
            => /\ r.is_defective = Fresh(r.image_path).is_defective
               /\ r.defect_types = Fresh(r.image_path).defect_types

\* Two workers ran at once; one reported the blurred and underexposed image
\* after its second lookup found the image in the cache, the other reported
\* an image it decoded twice because the cache was full.
C29_Witness ==
    \E e \in Execs :
        /\ ~execs[e].purged
        /\ config.MAX_WORKERS = 2
        /\ Cardinality(DOMAIN image_cache) >= 1
        /\ \E r \in ReportsOf(e) :
              /\ r.image_path \in DOMAIN image_cache
              /\ r.defect_types = <<"blur", "underexposed">>
        /\ \E r \in ReportsOf(e) :
              /\ r.image_path \notin DOMAIN image_cache
              /\ imread(r.image_path).ok
              /\ r.details # <<>>

\* C30: within one execution's screening pass a batch starts only when every
\* sub-batch worker of the batch before it has finished.
C30_BatchesJoinBeforeNext ==
    [][\A e \in Execs :
          execs'[e].i # execs[e].i
          => \A j \in 1..Len(execs[e].futures) :
                execs[e].futures[j].st = "done"]_vars

\* The second batch of a run is in work, after the four reports of the
\* first were collected.
C30_Witness ==
    \E e \in Execs :
        /\ execs[e].pc = "screen"
        /\ execs[e].i = 2 * config.BATCH_SIZE
        /\ Len(execs[e].quality_results) = config.BATCH_SIZE
        /\ \E j \in 1..Len(execs[e].futures) :
              execs[e].futures[j].st = "run"

\* The paths of the sub-batches of futures from the j-th on, in order.
RECURSIVE Flatten(_, _)
Flatten(futures, j) ==
    IF j > Len(futures) THEN <<>>
    ELSE futures[j].sub_batch \o Flatten(futures, j + 1)

\* How many reports of an execution are about image_path.
TimesScreened(e, image_path) ==
    Cardinality({ n \in 1..Len(execs[e].quality_results) :
                    execs[e].quality_results[n].image_path = image_path })
    + Cardinality({ <<j, n>> \in (1..Len(execs[e].futures)) \X (1..MaxBatch) :
                      /\ n <= Len(execs[e].futures[j].results)
                      /\ execs[e].futures[j].results[n].image_path
                           = image_path })

\* C31: for every image count, batch size and worker count the sub-batches
\* of a batch, in order, are non-empty and make up the batch, the batches
\* are the consecutive slices of the scanned sequence, and every scanned
\* image is screened exactly once.
C31_BatchesPartitionTheScan ==
    \A e \in Execs :
        /\ execs[e].pc = "screen" /\ execs[e].i > 0
           => /\ Flatten(execs[e].futures, 1)
                   = SubSeq(execs[e].photo_paths,
                            execs[e].i - config.BATCH_SIZE + 1,
                            Min(execs[e].i, execs[e].total))
              /\ \A j \in 1..Len(execs[e].futures) :
                    execs[e].futures[j].sub_batch # <<>>
              /\ execs[e].i % config.BATCH_SIZE = 0
              /\ \A n \in 1..Len(execs[e].photo_paths) :
                    /\ n <= execs[e].i - config.BATCH_SIZE
                       => TimesScreened(e, execs[e].photo_paths[n]) = 1
                    /\ n > execs[e].i
                       => TimesScreened(e, execs[e].photo_paths[n]) = 0
                    /\ TimesScreened(e, execs[e].photo_paths[n]) <= 1
        /\ execs[e].pc \in {"index", "finish", "done"} /\ execs[e].total > 0
           => /\ Len(execs[e].quality_results) = execs[e].total
              /\ \A n \in 1..Len(execs[e].photo_paths) :
                    TimesScreened(e, execs[e].photo_paths[n]) = 1

\* Five images were screened with more workers than the batch holds images,
\* in batches of two.
C31_Witness ==
    \E e \in Execs :
        /\ config.MAX_WORKERS > config.BATCH_SIZE
        /\ config.BATCH_SIZE = 2
        /\ execs[e].total = 5
        /\ execs[e].pc = "done"
        /\ Len(execs[e].quality_results) = 5

\* C32: an execution calls index_photos only after its last screening batch
\* has joined and every scanned image has its report, one call at a time, and
\* its k-th call is handed the k-th chunk of the qualified list.
C32_IndexingAfterScreeningInOrder ==
    [][\A e \in Execs :
          execs'[e].index_calls # execs[e].index_calls
          => /\ execs[e].pc = "index"
             /\ execs[e].futures = <<>>
             /\ execs[e].i >= execs[e].total
             /\ Len(execs[e].quality_results) = execs[e].total
             /\ Len(execs'[e].index_calls) = Len(execs[e].index_calls) + 1
             /\ SubSeq(execs'[e].index_calls, 1, Len(execs[e].index_calls))
                  = execs[e].index_calls
             /\ LET k == Len(execs[e].index_calls)
                    first == k * config.SEARCH_BATCH_SIZE + 1
                    last == Min((k + 1) * config.SEARCH_BATCH_SIZE,
                                Len(execs[e].qualified_photos))
                IN /\ first <= last
                   /\ execs'[e].index_calls[k + 1].photo_paths
                        = [n \in 1..(last - first + 1) |->
                             execs[e].qualified_photos[first + n - 1]]]_vars

\* An execution has made its two index_photos calls, three qualified photos
\* in chunks of two and one.
C32_Witness ==
    \E e \in Execs :
        /\ Len(execs[e].index_calls) = 2
        /\ Len(execs[e].qualified_photos) = 3
        /\ Len(execs[e].index_calls[1].photo_paths) = 2
        /\ execs[e].index_calls[2].photo_paths
             = <<execs[e].qualified_photos[3]>>

\* C33: the first index_photos call of an execution is made with
\* clear_existing = TRUE and every later one with FALSE, and a later call
\* leaves every entry that is in the store when it starts, those of the
\* earlier chunks included.
C33_OnlyFirstChunkClears ==
    [][\A e \in Execs :
          execs'[e].index_calls # execs[e].index_calls
          => LET k == Len(execs[e].index_calls)
             IN /\ execs'[e].index_calls[k + 1].clear_existing = (k = 0)
                /\ k > 0
                   => \A id \in DOMAIN collection.entries :
                         /\ id \in DOMAIN collection'.entries
                         /\ collection'.entries[id] = collection.entries[id]]_vars

\* An execution indexed two photos in its first chunk and one in its second,
\* and the store holds all three.
C33_Witness ==
    \E e \in Execs :
        /\ Len(execs[e].index_calls) = 2
        /\ execs[e].index_calls[1].clear_existing
        /\ ~execs[e].index_calls[2].clear_existing
        /\ execs[e].index_calls[1].ret = 2
        /\ execs[e].index_calls[2].ret = 1
        /\ collection_count(collection) = 3

\* The job ids a submit can give.
TaskIds == 0..MaxClock

\* C34: when the threads are scheduled fairly and no clear is issued, every
\* job that is registered eventually has status completed or error.
C34_EveryJobEnds ==
    \A id \in TaskIds :
        (id \in DOMAIN processing_tasks)
        ~> (/\ id \in DOMAIN processing_tasks
            /\ processing_tasks[id].status \in {"completed", "error"})

\* Both submitted jobs have ended, one completed and one in error, and no
\* execution is left running.
C34_Witness ==
    /\ Len(execs) = MaxSubmits
    /\ \A e \in Execs : execs[e].pc = "done"
    /\ \E id \in DOMAIN processing_tasks :
          processing_tasks[id].status = "completed"
    /\ \E id \in DOMAIN processing_tasks :
          processing_tasks[id].status = "error"

\* C35: in a completed job the per-image summaries of the result, and the
\* qualified paths handed to the indexer, are in scan order, whatever the
\* order in which the sub-batch workers completed.
C35_ResultsInScanOrder ==
    \A e \in Execs :
        execs[e].outcome = "completed"
        => /\ [n \in 1..Len(execs[e].quality_results) |->
                 execs[e].quality_results[n].image_path]
                = execs[e].photo_paths
           /\ \A m, n \in 1..Len(execs[e].qualified_photos) :
                 m < n => PathLess(execs[e].qualified_photos[m],
                                   execs[e].qualified_photos[n])

\* C36: when jobs run one at a time and no clear is issued, at the
\* completion of a job the number of entries of the store is the job's
\* indexed_photos, also when the job had no qualified photo or the provider
\* is unavailable.
C36_StoreCountIsIndexedPhotos ==
    /\ Len(execs) > 0
    /\ execs[Len(execs)].outcome = "completed"
    /\ execs[Len(execs)].task_id \in DOMAIN processing_tasks
    => collection_count(collection)
         = processing_tasks[execs[Len(execs)].task_id].result[1].indexed_photos

\* C37: in every reachable state in which the store holds an entry and the
\* provider is available, a search request is accepted and answered with a
\* result list.
C37_SearchAcceptedWhenStoreHasEntries ==
    collection_count(collection) > 0 /\ clip_available
    => \A text_ok \in BOOLEAN, top_k \in 1..MaxTopK :
          \A answer \in StoreAnswers(collection, top_k) :
              search_photos_endpoint(QUALIFIED_PHOTOS, collection,
                                     clip_available, text_ok,
                                     answer).status_code = 200


====
